---------------------------- MODULE Spec2Model ----------------------------
(***************************************************************************)
(* GDS2 Wafer Map Converter (wafermap_gui.py): the conversion pipeline     *)
(*   parse_gds2 -> build_grid -> format_output -> reparse                  *)
(* A Python str is a sequence of one-character strings; a str of length    *)
(* one that is stored as a grid cell is held as its character.  A float is *)
(* held exactly: a coordinate as the rational [n, d], a die size and a     *)
(* diameter as a whole number of millimetres.                              *)
(***************************************************************************)
EXTENDS Integers, Sequences, FiniteSets, TLC

VARIABLES
    pc,         \* position in the pipeline
    text,       \* the GDS2 listing, as text.splitlines() (raw lines)
    structs,    \* die_structure_names: list of accepted structure names
    coords,     \* list of placement records [x, y, name]
    diameter,   \* wafer diameter (mm)
    die_x,      \* die size X (mm)
    die_y,      \* die size Y (mm)
    show_edge,  \* BOOLEAN
    grid,       \* list of rows, a row a list of cells "." "?" "*"
    wafer_id,   \* str
    die_count,  \* int
    line_mode,  \* "sinf" | "crlf" | "lf"
    bin_rows,   \* list of str (bin table lines), <<>> when absent
    out,        \* bytes written by format_output
    new_grid,   \* what the reparse of the raw text recognised
    pitch,      \* what detect_pitch returned: <<pitch x, pitch y>>
    gds_text,     \* App._gds_text: [some, lines], some = FALSE for None
    settings,     \* the tk variables and the bin editor a conversion reads
    btn_convert,  \* Convert button and tool button enabled
    btn_export,   \* Export button and tool button enabled
    raw_txt,      \* content of the raw output text widget
    update_timer, \* App._update_timer: "none", or a timer "pending" / "fired"
    stale_timers, \* pending timers App._update_timer no longer refers to
    workers,      \* the conversion threads started so far, in order
    after_queue   \* callbacks handed to after(0, ...), by worker index

vars == <<pc, text, structs, coords, diameter, die_x, die_y, show_edge, grid,
          wafer_id, die_count, line_mode, bin_rows, out, new_grid, pitch,
          gds_text, settings, btn_convert, btn_export, raw_txt, update_timer,
          stale_timers, workers, after_queue>>

appVars == <<gds_text, settings, btn_convert, btn_export, raw_txt, update_timer,
             stale_timers, workers, after_queue>>

gdsVars == <<text, structs>>
cfgVars == <<diameter, die_x, die_y, show_edge>>
docVars == <<wafer_id, die_count, line_mode, bin_rows>>

(***************************************************************************)
(* Characters and str helpers                                              *)
(***************************************************************************)
CR == "\r"
LF == "\n"
TAB == "\t"
SP == " "
QT == "\""
COMMA == ","

Digits == <<"0", "1", "2", "3", "4", "5", "6", "7", "8", "9">>

IsWs(c) == c \in {SP, TAB, CR, LF}

IsDigit(c) == \E i \in 1..10 : Digits[i] = c

DigitVal(c) == (CHOOSE i \in 1..10 : Digits[i] = c) - 1

\* the one element of a singleton; { e(x) : x \in {v} } binds the value of v
\* once, as the assignment to a local variable does
Only(S) == CHOOSE x \in S : TRUE

Min(S) == CHOOSE m \in S : \A k \in S : m <= k

Max(S) == CHOOSE m \in S : \A k \in S : m >= k

\* str.strip(): whitespace removed at both ends
Strip(s) ==
    LET n == Len(s)
        lead == CHOOSE j \in 0..n :
                    /\ \A k \in 1..j : IsWs(s[k])
                    /\ j = n \/ ~IsWs(s[j + 1])
        trail == CHOOSE j \in 0..n :
                    /\ \A k \in (n - j + 1)..n : IsWs(s[k])
                    /\ j = n \/ ~IsWs(s[n - j])
    IN  IF lead = n THEN <<>> ELSE SubSeq(s, lead + 1, n - trail)

StartsWith(s, p) == Len(s) >= Len(p) /\ SubSeq(s, 1, Len(p)) = p

\* number of whitespace characters of s from position p on (a maximal run)
WsRun(s, p) ==
    LET stop == {i \in p..Len(s) : ~IsWs(s[i])}
    IN  IF stop = {} THEN Len(s) + 1 - p ELSE Min(stop) - p

\* number of digits of s from position p on (a maximal run)
DigitRun(s, p) ==
    LET stop == {i \in p..Len(s) : ~IsDigit(s[i])}
    IN  IF stop = {} THEN Len(s) + 1 - p ELSE Min(stop) - p

RECURSIVE Pow10(_)
Pow10(k) == IF k = 0 THEN 1 ELSE 10 * Pow10(k - 1)

\* int() of a run of digits
RECURSIVE DigitsVal(_)
DigitsVal(ds) ==
    IF ds = <<>> THEN 0
    ELSE 10 * DigitsVal(SubSeq(ds, 1, Len(ds) - 1)) + DigitVal(ds[Len(ds)])

(***************************************************************************)
(* parse_gds2                                                              *)
(***************************************************************************)
NoMatch == [ok |-> FALSE]

kwSREF == <<"S", "R", "E", "F">>
kwSNAME == <<"S", "N", "A", "M", "E">>
kwXY == <<"X", "Y">>
kwENDEL == <<"E", "N", "D", "E", "L">>

\* GDS database units per millimetre: float(group) / 1e6
DbUnitsPerMm == 1000000

\* re.compile(r'^SREF\s*$').match(line)
re_sref(line) ==
    /\ StartsWith(line, kwSREF)
    /\ \A i \in 5..Len(line) : IsWs(line[i])

\* re.compile(r'^ENDEL\s*$').match(line)
re_endel(line) ==
    /\ StartsWith(line, kwENDEL)
    /\ \A i \in 6..Len(line) : IsWs(line[i])

\* re.compile(r'^SNAME\s+(.+)$').match(line): \s+ is greedy and gives back
\* what (.+) needs; '.' matches anything but a line feed
re_sname(line) ==
    IF ~StartsWith(line, kwSNAME) THEN NoMatch
    ELSE LET k == WsRun(line, 6)
             ok == {j \in 1..k :
                      /\ 5 + j < Len(line)
                      /\ \A i \in (6 + j)..Len(line) : line[i] # LF}
         IN  IF ok = {} THEN NoMatch
             ELSE [ok |-> TRUE, name |-> SubSeq(line, 6 + Max(ok), Len(line))]

\* -?\d+(?:\.\d+)? at position p of line: where it ends and the float() of
\* what it matched, as the rational n / d
re_num(line, p) ==
    LET neg == p <= Len(line) /\ line[p] = "-"
        a == IF neg THEN p + 1 ELSE p
        k == DigitRun(line, a)
        hasDot == a + k <= Len(line) /\ line[a + k] = "."
        f == IF hasDot THEN DigitRun(line, a + k + 1) ELSE 0
        mag == DigitsVal(SubSeq(line, a, a + k - 1) \o
                         SubSeq(line, a + k + 1, a + k + f))
    IN  IF k = 0 THEN NoMatch
        ELSE [ok |-> TRUE,
              end |-> IF f > 0 THEN a + k + 1 + f ELSE a + k,
              n |-> IF neg THEN 0 - mag ELSE mag,
              d |-> Pow10(f)]

\* re.compile(r'^XY\s+(-?\d+(?:\.\d+)?)\s*:\s*(-?\d+(?:\.\d+)?)').match(line)
re_xy(line) ==
    IF ~StartsWith(line, kwXY) THEN NoMatch
    ELSE LET w == WsRun(line, 3)
             g1 == re_num(line, 3 + w)
         IN  IF w = 0 \/ ~g1.ok THEN NoMatch
             ELSE LET c == g1.end + WsRun(line, g1.end)
                  IN  IF ~(c <= Len(line) /\ line[c] = ":") THEN NoMatch
                      ELSE LET g2 == re_num(line, c + 1 + WsRun(line, c + 1))
                           IN  IF ~g2.ok THEN NoMatch
                               ELSE [ok |-> TRUE, g1 |-> g1, g2 |-> g2]

\* cur_sname in die_structure_names
InList(name, names) == \E i \in 1..Len(names) : names[i] = name

\* faulty variant of Accept: the filter is not consulted
AcceptAll(st, names) == st.cur_sname # <<>>

\* cur_sname and (not die_structure_names or cur_sname in die_structure_names)
Accept(st, names) ==
    st.cur_sname # <<>> /\ (names = <<>> \/ InList(st.cur_sname, names))

\* float(m.group(k)) / 1e6
ToMm(g) == [n |-> g.n, d |-> g.d * DbUnitsPerMm]

\* the loop's state before the first line; cur_sname None is <<>>
ParseInit == [in_sref |-> FALSE, cur_sname |-> <<>>, coords |-> <<>>]

\* what the four patterns say of a raw line, after line = line.strip()
MatchLine(raw) ==
    LET line == Strip(raw)
    IN  [sref |-> re_sref(line), sname |-> re_sname(line),
         xy |-> re_xy(line), endel |-> re_endel(line)]

\* the records made of an XY match and the current name
Record(xy, name) == [x |-> ToMm(xy.g1), y |-> ToMm(xy.g2), name |-> name]

\* faulty variant of ParseStep: without 'if not in_sref: continue'
ParseStepNoScope(st, m, names) ==
    IF m.sref THEN [st EXCEPT !.in_sref = TRUE, !.cur_sname = <<>>]
    ELSE IF m.sname.ok THEN [st EXCEPT !.cur_sname = m.sname.name]
    ELSE IF m.xy.ok THEN
        IF Accept(st, names)
        THEN [st EXCEPT !.coords = Append(@, Record(m.xy, st.cur_sname))]
        ELSE st
    ELSE IF m.endel THEN [st EXCEPT !.in_sref = FALSE]
    ELSE st

\* faulty variant of ParseStep: a placement already recorded is not
\* recorded again
ParseStepMerging(st, m, names) ==
    IF m.sref THEN [st EXCEPT !.in_sref = TRUE, !.cur_sname = <<>>]
    ELSE IF ~st.in_sref THEN st
    ELSE IF m.sname.ok THEN [st EXCEPT !.cur_sname = m.sname.name]
    ELSE IF m.xy.ok THEN
        IF Accept(st, names) /\ ~InList(Record(m.xy, st.cur_sname), st.coords)
        THEN [st EXCEPT !.coords = Append(@, Record(m.xy, st.cur_sname))]
        ELSE st
    ELSE IF m.endel THEN [st EXCEPT !.in_sref = FALSE]
    ELSE st

\* one iteration of the loop over text.splitlines(), m the line's matches
ParseStep(st, m, names) ==
    IF m.sref THEN [st EXCEPT !.in_sref = TRUE, !.cur_sname = <<>>]
    ELSE IF ~st.in_sref THEN st
    ELSE IF m.sname.ok THEN [st EXCEPT !.cur_sname = m.sname.name]
    ELSE IF m.xy.ok THEN
        IF Accept(st, names)
        THEN [st EXCEPT !.coords = Append(@, Record(m.xy, st.cur_sname))]
        ELSE st
    ELSE IF m.endel THEN [st EXCEPT !.in_sref = FALSE]
    ELSE st

\* the lines the listings are made of
LineSamples ==
    { <<SP, "S", "R", "E", "F", SP>>,
      <<"S", "N", "A", "M", "E", SP, "a">>,
      <<"S", "N", "A", "M", "E", SP, SP, "b">>,
      <<"X", "Y", SP, "1", ":", "2">>,
      <<"X", "Y", SP, "-", "3", SP, ":", SP, "4", ".", "5", SP, "6", ":", "7">>,
      <<"X", "Y", SP, "1", SP, "2">>,
      <<"E", "N", "D", "E", "L">> }

\* MatchLine, evaluated once for each of the lines the listings are made of
\* the structure name and the lines of the single-die listing
z5_subdef1 == <<"z", "5", "_", "s", "u", "b", "d", "e", "f", "1">>

ScenarioLines ==
    { kwSREF,
      kwSNAME \o <<SP>> \o z5_subdef1,
      kwXY \o <<SP, "0", ":", "0">>,
      kwENDEL,
      kwXY \o <<SP, "1", "0", "0", "0", "0", "0", "0", ":", "0">> }

MatchTable == [raw \in LineSamples \cup ScenarioLines |-> MatchLine(raw)]

Matches(raw) ==
    IF raw \in DOMAIN MatchTable THEN MatchTable[raw] ELSE MatchLine(raw)

RECURSIVE ParseLoop(_, _, _)
ParseLoop(lines, k, names) ==
    IF k = 0 THEN ParseInit
    ELSE ParseStep(ParseLoop(lines, k - 1, names), Matches(lines[k]), names)

parse_gds2(lines, names) == ParseLoop(lines, Len(lines), names).coords


(***************************************************************************)
(* Inputs of the listing scan                                              *)
(***************************************************************************)
MaxLines == 5

nameA == <<"a">>
nameB == <<"b">>

Listings == UNION {[1..n -> LineSamples] : n \in 0..MaxLines}

Filters == {<<>>, <<nameA>>, <<nameB>>}

Idle ==
    /\ coords = <<>>
    /\ grid = <<>>
    /\ out = <<>>
    /\ new_grid = [found |-> FALSE, rows |-> <<>>]

NoGds == text = <<>> /\ structs = <<>>

\* most_common_diff returns None
Absent == [some |-> FALSE, n |-> 0, d |-> 1]

\* detect_pitch has not been called
NoPitch == pitch = <<Absent, Absent>>

\* the application's fields as long as no window is involved
NoApp ==
    /\ gds_text = [some |-> FALSE, lines |-> <<>>]
    /\ settings = <<>>
    /\ btn_convert = FALSE /\ btn_export = FALSE
    /\ raw_txt = <<>>
    /\ update_timer = "none" /\ stale_timers = 0
    /\ workers = <<>> /\ after_queue = <<>>
NoCfg == diameter = 0 /\ die_x = 1 /\ die_y = 1 /\ show_edge = FALSE
NoDoc == wafer_id = <<>> /\ die_count = 0 /\ line_mode = "lf" /\ bin_rows = <<>>

InitParse ==
    /\ pc = "start"
    /\ text \in Listings
    /\ structs \in Filters
    /\ NoCfg /\ NoDoc /\ Idle /\ NoApp /\ NoPitch

\* coords = parse_gds2(self._gds_text, structs)
Parse ==
    /\ pc = "start"
    /\ coords' = parse_gds2(text, structs)
    /\ pc' = "parsed"
    /\ UNCHANGED <<gdsVars, cfgVars, docVars, grid, out, new_grid, pitch, appVars>>

NextParse == Parse

SpecParse == InitParse /\ [][NextParse]_vars

(***************************************************************************)
(* Properties of parse_gds2                                                *)
(***************************************************************************)
IsSrefLine(i) == Matches(text[i]).sref
IsEndelLine(i) == Matches(text[i]).endel
IsSnameLine(i) == Matches(text[i]).sname.ok
IsXyLine(i) == Matches(text[i]).xy.ok

\* line i lies in a block opened by an SREF line and not closed since, and an
\* SNAME line was seen since that SREF line
Scoped(i) ==
    \E s \in 1..(i - 1) :
        /\ IsSrefLine(s)
        /\ \A k \in (s + 1)..(i - 1) : ~IsSrefLine(k) /\ ~IsEndelLine(k)
        /\ \E k \in (s + 1)..(i - 1) : IsSnameLine(k)

\* number of records the scan holds after each line: Counts[i] after line i
Counts ==
    [i \in 0..Len(text) |-> Len(parse_gds2(SubSeq(text, 1, i), structs))]

\* the lines at which the scan appends a record
EmittingLines ==
    LET cnt == Counts
    IN  {i \in 1..Len(text) : cnt[i] > cnt[i - 1]}

\* the XY lines in a named, open block
ScopedXyLines == {i \in 1..Len(text) : IsXyLine(i) /\ Scoped(i)}

\* C4 (extraction scoping): a record is emitted only for an XY line that lies
\* inside a block opened by an SREF line and not yet closed by an ENDEL line,
\* with an SNAME line seen since the most recent SREF line; an XY line
\* outside any block, after ENDEL or before the first SNAME of its block
\* yields no record.
C4_ExtractionScoping ==
    pc = "parsed" =>
        LET em == EmittingLines
        IN  /\ em \subseteq ScopedXyLines
            /\ Len(coords) = Cardinality(em)

C4_Witness ==
    /\ pc = "parsed"
    /\ coords # <<>>
    /\ \E j \in 1..Len(text) : IsXyLine(j) /\ ~Scoped(j)

\* a is b with some elements left out (order kept)
RECURSIVE IsSubSeq(_, _)
IsSubSeq(a, b) ==
    IF a = <<>> THEN TRUE
    ELSE IF b = <<>> THEN FALSE
    ELSE IF a[1] = b[1] THEN IsSubSeq(Tail(a), Tail(b))
    ELSE IsSubSeq(a, Tail(b))

\* C5 (filter correctness): with a non-empty filter every record's name is a
\* member of the filter and the records are a sub-sequence of those the empty
\* filter gives; the empty filter gives a record for every named XY line in a
\* block.
C5_FilterCorrectness ==
    pc = "parsed" =>
        /\ structs # <<>> =>
              \A k \in 1..Len(coords) : InList(coords[k].name, structs)
        /\ IsSubSeq(coords, parse_gds2(text, <<>>))
        /\ structs = <<>> => Len(coords) = Cardinality(ScopedXyLines)

C5_Witness ==
    /\ pc = "parsed"
    /\ structs # <<>>
    /\ coords # <<>>
    /\ Len(coords) < Len(parse_gds2(text, <<>>))


(***************************************************************************)
(* build_grid                                                              *)
(***************************************************************************)
\* round(n / d) for d > 0: Python rounds a tie to the even neighbour
RoundHalfEven(n, d) ==
    LET q == n \div d
        r == n - q * d
    IN  IF 2 * r < d THEN q
        ELSE IF 2 * r > d THEN q + 1
        ELSE IF q % 2 = 0 THEN q ELSE q + 1

\* round(n / d) for d # 0: n / d = (-n) / (-d)
RoundDiv(n, d) == IF d > 0 THEN RoundHalfEven(n, d) ELSE RoundHalfEven(0 - n, 0 - d)

\* math.ceil(n / d) for d # 0
CeilDiv(n, d) ==
    IF d > 0 THEN 0 - ((0 - n) \div d) ELSE 0 - (n \div (0 - d))

\* gx, gy = round(x / die_x), round(y / die_y)
GridIndex(c, dx, dy) ==
    <<RoundDiv(c.x.n, c.x.d * dx), RoundDiv(c.y.n, c.y.d * dy)>>

\* math.sqrt((gx * die_x)**2 + (gy * die_y)**2) <= half, half = diameter / 2.0
WithinHalf(gx, gy, diam, dx, dy) ==
    /\ diam >= 0
    /\ 4 * ((gx * dx) * (gx * dx) + (gy * dy) * (gy * dy)) <= diam * diam

\* die_set after the loop over coords
DieSet(cs, diam, dx, dy) ==
    {g \in {GridIndex(cs[k], dx, dy) : k \in 1..Len(cs)} :
        WithinHalf(g[1], g[2], diam, dx, dy)}

\* faulty variant of FallbackR: without the extra cell
FallbackRNoMargin(diam, dx, dy) ==
    LET m == IF dx <= dy THEN dx ELSE dy
    IN  CeilDiv(diam, 2 * m)

\* math.ceil(half / min(die_x, die_y)) + 1
FallbackR(diam, dx, dy) ==
    LET m == IF dx <= dy THEN dx ELSE dy
    IN  CeilDiv(diam, 2 * m) + 1

\* faulty variant of Bounds: the extent of die_set without the margin
BoundsNoMargin(ds, diam, dx, dy) ==
    IF ds # {}
    THEN [min_gx |-> Min({g[1] : g \in ds}), max_gx |-> Max({g[1] : g \in ds}),
          min_gy |-> Min({g[2] : g \in ds}), max_gy |-> Max({g[2] : g \in ds})]
    ELSE LET r == FallbackR(diam, dx, dy)
         IN  [min_gx |-> 0 - r, max_gx |-> r, min_gy |-> 0 - r, max_gy |-> r]

\* min_gx, max_gx, min_gy, max_gy
Bounds(ds, diam, dx, dy) ==
    IF ds # {}
    THEN [min_gx |-> Min({g[1] : g \in ds}) - 1, max_gx |-> Max({g[1] : g \in ds}) + 1,
          min_gy |-> Min({g[2] : g \in ds}) - 1, max_gy |-> Max({g[2] : g \in ds}) + 1]
    ELSE LET r == FallbackR(diam, dx, dy)
         IN  [min_gx |-> 0 - r, max_gx |-> r, min_gy |-> 0 - r, max_gy |-> r]

\* faulty variant of Neighbours: the eight surrounding indices
NeighboursEight(gx, gy) ==
    {<<gx + a, gy + b>> : a \in {-1, 0, 1}, b \in {-1, 0, 1}} \ {<<gx, gy>>}

\* (dx, dy) in ((-1, 0), (1, 0), (0, -1), (0, 1))
Neighbours(gx, gy) == {<<gx - 1, gy>>, <<gx + 1, gy>>, <<gx, gy - 1>>, <<gx, gy + 1>>}

\* faulty variant of Cell: without the distance test
CellNoRadius(ds, gx, gy, diam, dx, dy, edge) ==
    IF <<gx, gy>> \in ds THEN "?"
    ELSE IF edge /\ Neighbours(gx, gy) \cap ds # {} THEN "*" ELSE "."

\* faulty variant of Cell: the eight surrounding indices count as neighbours
CellDiagonal(ds, gx, gy, diam, dx, dy, edge) ==
    IF ~WithinHalf(gx, gy, diam, dx, dy) THEN "."
    ELSE IF <<gx, gy>> \in ds THEN "?"
    ELSE IF edge /\ \E g \in ds : g[1] - gx \in {-1, 0, 1} /\ g[2] - gy \in {-1, 0, 1}
         THEN "*" ELSE "."

\* the symbol appended for index (gx, gy)
Cell(ds, gx, gy, diam, dx, dy, edge) ==
    IF ~WithinHalf(gx, gy, diam, dx, dy) THEN "."
    ELSE IF <<gx, gy>> \in ds THEN "?"
    ELSE IF edge /\ Neighbours(gx, gy) \cap ds # {} THEN "*" ELSE "."

\* faulty variant of build_grid: rows from min_gy up to max_gy
build_grid_south_first(cs, diam, dx, dy, edge) ==
    LET ds == DieSet(cs, diam, dx, dy)
        b == Bounds(ds, diam, dx, dy)
    IN  [i \in 1..(b.max_gy - b.min_gy + 1) |->
            [j \in 1..(b.max_gx - b.min_gx + 1) |->
                Cell(ds, b.min_gx + j - 1, b.min_gy + i - 1, diam, dx, dy, edge)]]

\* for gy in range(max_gy, min_gy - 1, -1): for gx in range(min_gx, max_gx + 1)
build_grid(cs, diam, dx, dy, edge) ==
    LET ds == DieSet(cs, diam, dx, dy)
        b == Bounds(ds, diam, dx, dy)
    IN  [i \in 1..(b.max_gy - b.min_gy + 1) |->
            [j \in 1..(b.max_gx - b.min_gx + 1) |->
                Cell(ds, b.min_gx + j - 1, b.max_gy - i + 1, diam, dx, dy, edge)]]

(***************************************************************************)
(* Inputs of the grid builder                                              *)
(***************************************************************************)
MaxCoords == 2

\* x and y of the placements, in database units
XSamples == {-1500000, 0, 500000, 1000000}
YSamples == {-1000000, 0, 1500000}

Placements ==
    {[x |-> [n |-> a, d |-> DbUnitsPerMm], y |-> [n |-> b, d |-> DbUnitsPerMm],
      name |-> nameA] : a \in XSamples, b \in YSamples}

CoordLists == UNION {[1..n -> Placements] : n \in 0..MaxCoords}

Diameters == {1, 2, 3, 5}
DieSizes == {1, 2}

InitGrid ==
    /\ pc = "parsed"
    /\ coords \in CoordLists
    /\ diameter \in Diameters
    /\ die_x \in DieSizes
    /\ die_y \in DieSizes
    /\ show_edge \in BOOLEAN
    /\ NoGds /\ NoDoc /\ NoApp /\ NoPitch
    /\ grid = <<>> /\ out = <<>> /\ new_grid = [found |-> FALSE, rows |-> <<>>]

\* grid = build_grid(coords, diameter, die_x, die_y, show_edge)
Build ==
    /\ pc = "parsed"
    /\ grid' = build_grid(coords, diameter, die_x, die_y, show_edge)
    /\ pc' = "built"
    /\ UNCHANGED <<gdsVars, coords, cfgVars, docVars, out, new_grid, pitch, appVars>>

NextGrid == Build

SpecGrid == InitGrid /\ [][NextGrid]_vars

(***************************************************************************)
(* Properties of build_grid                                                *)
(***************************************************************************)
\* the occupied indices: the rounded index of each record, kept when its
\* nominal centre is within the radius
Occupied ==
    {g \in {GridIndex(coords[k], die_x, die_y) : k \in 1..Len(coords)} :
        4 * ((g[1] * die_x) * (g[1] * die_x) + (g[2] * die_y) * (g[2] * die_y))
            <= diameter * diameter}

\* the frame of a built grid: the occupied indices, their extent, and the
\* index of the first column (west) and of the first row (north)
Frame ==
    LET occ == Occupied
        r == FallbackR(diameter, die_x, die_y)
    IN  IF occ # {}
        THEN LET xs == {g[1] : g \in occ}
                 ys == {g[2] : g \in occ}
             IN  [occ |-> occ, minGx |-> Min(xs), maxGx |-> Max(xs),
                  minGy |-> Min(ys), maxGy |-> Max(ys),
                  west |-> Min(xs) - 1, north |-> Max(ys) + 1]
        ELSE [occ |-> occ, minGx |-> 0, maxGx |-> 0, minGy |-> 0, maxGy |-> 0,
              west |-> 0 - r, north |-> r]

\* the index held by column j and by row i
GxOf(f, j) == f.west + j - 1
GyOf(f, i) == f.north - i + 1

\* index-based distance strictly greater than diameter / 2
BeyondRadius(gx, gy) ==
    4 * ((gx * die_x) * (gx * die_x) + (gy * die_y) * (gy * die_y)) > diameter * diameter

GridCells == {<<i, j>> : i \in 1..Len(grid), j \in 1..(IF grid = <<>> THEN 0 ELSE Len(grid[1]))}

\* C2 (grid containment): every '?' cell has index-based distance
\* <= diameter / 2, and every cell whose index-based distance is strictly
\* greater than diameter / 2 is '.'.
C2_GridContainment ==
    pc = "built" =>
        LET f == Frame
        IN  \A c \in GridCells :
                /\ grid[c[1]][c[2]] = "?" => ~BeyondRadius(GxOf(f, c[2]), GyOf(f, c[1]))
                /\ BeyondRadius(GxOf(f, c[2]), GyOf(f, c[1])) => grid[c[1]][c[2]] = "."

\* an occupied die next to a cell beyond the radius, edges shown
C2_Witness ==
    /\ pc = "built"
    /\ show_edge
    /\ LET f == Frame
       IN  \E c \in GridCells :
              /\ BeyondRadius(GxOf(f, c[2]), GyOf(f, c[1]))
              /\ Neighbours(GxOf(f, c[2]), GyOf(f, c[1])) \cap f.occ # {}

\* C3 (edge adjacency): a cell is '*' if and only if showEdge is true, its
\* index is not occupied, its index-based distance is within the radius and
\* one of its four axis neighbours is occupied.
C3_EdgeAdjacency ==
    pc = "built" =>
        LET f == Frame
        IN  \A c \in GridCells :
                LET gx == GxOf(f, c[2])
                    gy == GyOf(f, c[1])
                IN  grid[c[1]][c[2]] = "*" <=>
                        /\ show_edge
                        /\ <<gx, gy>> \notin f.occ
                        /\ ~BeyondRadius(gx, gy)
                        /\ \E g \in f.occ :
                              \/ g[1] = gx /\ g[2] \in {gy - 1, gy + 1}
                              \/ g[2] = gy /\ g[1] \in {gx - 1, gx + 1}

\* a grid with an edge cell, and with a diagonal neighbour of an occupied
\* die that is within the radius and is no edge cell
C3_Witness ==
    /\ pc = "built"
    /\ show_edge
    /\ \E c \in GridCells : grid[c[1]][c[2]] = "*"
    /\ LET f == Frame
       IN  \E c \in GridCells :
              /\ grid[c[1]][c[2]] = "."
              /\ ~BeyondRadius(GxOf(f, c[2]), GyOf(f, c[1]))
              /\ \E g \in f.occ :
                    /\ g[1] - GxOf(f, c[2]) \in {-1, 1}
                    /\ g[2] - GyOf(f, c[1]) \in {-1, 1}

\* C10 (grid shape): the grid is rectangular; with an occupied index it has
\* maxGy - minGy + 3 rows and maxGx - minGx + 3 columns, its first and last
\* row and column hold no '?', and every occupied index is a '?' cell
\* exactly once.
C10_GridShape ==
    pc = "built" =>
        LET f == Frame
        IN  /\ \A i \in 1..Len(grid) : Len(grid[i]) = Len(grid[1])
            /\ f.occ # {} =>
                  /\ Len(grid) = f.maxGy - f.minGy + 3
                  /\ Len(grid[1]) = f.maxGx - f.minGx + 3
                  /\ \A c \in GridCells :
                        (c[1] \in {1, Len(grid)} \/ c[2] \in {1, Len(grid[1])})
                            => grid[c[1]][c[2]] # "?"
                  /\ Cardinality({c \in GridCells : grid[c[1]][c[2]] = "?"})
                        = Cardinality(f.occ)
                  /\ \A g \in f.occ :
                        Cardinality({c \in GridCells :
                            /\ GxOf(f, c[2]) = g[1] /\ GyOf(f, c[1]) = g[2]
                            /\ grid[c[1]][c[2]] = "?"}) = 1

\* two occupied indices that differ in both axes
C10_Witness ==
    /\ pc = "built"
    /\ LET f == Frame
       IN  f.occ # {} /\ f.maxGx > f.minGx /\ f.maxGy > f.minGy

\* the records whose index is occupied
Placed(f) == {k \in 1..Len(coords) : GridIndex(coords[k], die_x, die_y) \in f.occ}

\* the row and the column in which record k appears (counted from 1)
RowAt(f, k) == f.north - GridIndex(coords[k], die_x, die_y)[2] + 1
ColAt(f, k) == GridIndex(coords[k], die_x, die_y)[1] - f.west + 1

\* a is a smaller coordinate than b; the denominators are powers of ten, so
\* the smaller one divides the other
Less(a, b) ==
    LET g == IF a.d <= b.d THEN a.d ELSE b.d
    IN  a.n * (b.d \div g) < b.n * (a.d \div g)

C12_EmptyFallback ==
    (pc = "built" /\ Occupied = {}) =>
        LET m == IF die_x <= die_y THEN die_x ELSE die_y
            \* the least k with k >= (diameter / 2) / m
            c == CHOOSE k \in 0..(diameter + 1) :
                    /\ 2 * m * k >= diameter
                    /\ \A h \in 0..(k - 1) : 2 * m * h < diameter
            r == c + 1
            b == Bounds({}, diameter, die_x, die_y)
        IN  /\ Len(grid) = 2 * r + 1
            /\ Len(grid) > 0
            /\ \A i \in 1..Len(grid) :
                  /\ Len(grid[i]) = 2 * r + 1
                  /\ \A j \in 1..Len(grid[i]) : grid[i][j] = "."
            /\ b.min_gx = 0 - r /\ b.max_gx = r
            /\ b.min_gy = 0 - r /\ b.max_gy = r

\* records exist, all of them beyond the radius, edges shown
C12_Witness ==
    /\ pc = "built"
    /\ coords # <<>>
    /\ show_edge
    /\ Occupied = {}
    /\ Len(grid) >= 5


(***************************************************************************)
(* The conversion of a listing: parse_gds2, then build_grid                *)
(***************************************************************************)
MaxScenarioLines == 4

ScenarioListings == [1..MaxScenarioLines -> ScenarioLines]

ScenarioDiameters == {3, 5}

InitPipeline ==
    /\ pc = "start"
    /\ text \in ScenarioListings
    /\ structs \in {<<>>, <<z5_subdef1>>, <<nameA>>}
    /\ diameter \in ScenarioDiameters
    /\ die_x = 1
    /\ die_y = 1
    /\ show_edge \in BOOLEAN
    /\ NoDoc /\ Idle /\ NoApp /\ NoPitch

NextPipeline == Parse \/ Build

SpecPipeline == InitPipeline /\ [][NextPipeline]_vars

\* SREF / SNAME z5_subdef1 / XY 0:0 / ENDEL, filter {z5_subdef1}, diameter 3,
\* die size 1 x 1, edges shown
SingleDie ==
    /\ text = << kwSREF,
                 kwSNAME \o <<SP>> \o z5_subdef1,
                 kwXY \o <<SP, "0", ":", "0">>,
                 kwENDEL >>
    /\ structs = <<z5_subdef1>>
    /\ diameter = 3
    /\ die_x = 1 /\ die_y = 1
    /\ show_edge

\* C13 (single-die scenario): the single-die listing gives one record and a
\* 3 x 3 grid with '?' at the centre only, '*' in exactly its four
\* orthogonal neighbours and '.' in the four corners.
C13_SingleDie ==
    (pc = "built" /\ SingleDie) =>
        /\ Len(coords) = 1
        /\ Len(grid) = 3
        /\ \A i \in 1..3 : Len(grid[i]) = 3
        /\ \A i, j \in 1..3 :
              grid[i][j] = (IF i = 2 /\ j = 2 THEN "?"
                            ELSE IF i = 2 \/ j = 2 THEN "*" ELSE ".")

C13_Witness ==
    /\ pc = "built"
    /\ SingleDie
    /\ grid # <<>>
    /\ coords # <<>>

(***************************************************************************)
(* format_output                                                           *)
(***************************************************************************)
\* str(n) of an int n >= 0
RECURSIVE StrInt(_)
StrInt(n) ==
    IF n < 10 THEN <<Digits[n + 1]>>
    ELSE StrInt(n \div 10) \o <<Digits[(n % 10) + 1]>>

\* str(diameter) of a float holding a whole number: "5.0"
StrFloat(d) == StrInt(d) \o <<".", "0">>

\* '"' + s + '"'
Quote(s) == <<QT>> \o s \o <<QT>>

\* sep.join(parts)
RECURSIVE Join(_, _)
Join(parts, sep) ==
    IF parts = <<>> THEN <<>>
    ELSE IF Len(parts) = 1 THEN parts[1]
    ELSE parts[1] \o sep \o Join(Tail(parts), sep)

\* the concatenation of a list of str
RECURSIVE Concat(_)
Concat(parts) ==
    IF parts = <<>> THEN <<>> ELSE parts[1] \o Concat(Tail(parts))

sRVD == <<"R", "V", "D">>
sFALSE == <<"F", "A", "L", "S", "E">>
sMETRIC == <<"M", "E", "T", "R", "I", "C">>
sBOTTOM == <<"B", "O", "T", "T", "O", "M">>
sPOST == <<"P", "O", "S", "T">>

\* '"RVD","RVD",...' with k tokens
Rvds(k) == Join([i \in 1..k |-> Quote(sRVD)], <<COMMA>>)

\* n_rows = len(grid); n_cols = len(grid[0]) if grid else 0
NRows(g) == Len(g)
NCols(g) == IF g # <<>> THEN Len(g[1]) ELSE 0

\* faulty variant of HeaderLine1: n_cols written before n_rows
HeaderLine1Swapped(g, wid, diam) ==
    Quote(wid) \o <<COMMA, "6", COMMA>> \o Quote(sMETRIC) \o <<COMMA>>
        \o Quote(sBOTTOM) \o <<COMMA>> \o Quote(StrFloat(diam)) \o <<COMMA>>
        \o Quote(StrFloat(diam)) \o <<COMMA>> \o StrInt(NCols(g)) \o <<COMMA>>
        \o StrInt(NRows(g)) \o <<COMMA>> \o Quote(<<"0">>) \o <<COMMA>> \o Quote(<<"0">>)

\* the first header line
HeaderLine1(g, wid, diam) ==
    Quote(wid) \o <<COMMA, "6", COMMA>> \o Quote(sMETRIC) \o <<COMMA>>
        \o Quote(sBOTTOM) \o <<COMMA>> \o Quote(StrFloat(diam)) \o <<COMMA>>
        \o Quote(StrFloat(diam)) \o <<COMMA>> \o StrInt(NRows(g)) \o <<COMMA>>
        \o StrInt(NCols(g)) \o <<COMMA>> \o Quote(<<"0">>) \o <<COMMA>> \o Quote(<<"0">>)

\* header = [...]: the 24 fixed lines
Header(g, wid, diam, count) ==
    << HeaderLine1(g, wid, diam),
       Quote(<<"4", "4">>) \o <<COMMA>> \o Quote(<<"4">>),
       Quote(<<"0">>),
       Quote(<<"1">>) \o <<COMMA>> \o Quote(<<"4">>),
       Quote(sPOST),
       <<"0">>, <<"0">>, <<"0">>,
       Quote(sFALSE),
       <<"0">>, <<"0">>,
       Quote(sFALSE),
       Quote(<<"0">>), Quote(<<"0">>),
       Quote(StrInt(count)),
       Rvds(3),
       Quote(sFALSE),
       Quote(<<>>),
       Quote(<<"0">>),
       Quote(<<"1", "0", "0", ":", "6">>),
       Rvds(11),
       Quote(<<>>), Quote(<<>>),
       Rvds(14) >>

\* faulty variant of BinLines: the count is written for an empty list too
BinLinesAlways(bins) == <<Quote(StrInt(Len(bins)))>> \o bins

\* if bin_rows: header.append('"' + str(len(bin_rows)) + '"'); header.append(b)
BinLines(bins) ==
    IF bins # <<>> THEN <<Quote(StrInt(Len(bins)))>> \o bins ELSE <<>>

\* cells = ','.join('"' + c + '"' for c in row)
CellsText(row) == Join([j \in 1..Len(row) |-> Quote(<<row[j]>>)], <<COMMA>>)

\* faulty variant of RowBytes: sinf rows without the quoted-CR field
RowBytesNoField(row, mode) ==
    IF mode = "sinf" THEN CellsText(row) \o <<CR, LF>>
    ELSE IF mode = "crlf" THEN CellsText(row) \o <<CR, LF>>
    ELSE CellsText(row) \o <<LF>>

\* the bytes written for one grid row
RowBytes(row, mode) ==
    IF mode = "sinf" THEN CellsText(row) \o <<COMMA, QT, CR, QT>> \o <<CR, LF>>
    ELSE IF mode = "crlf" THEN CellsText(row) \o <<CR, LF>>
    ELSE CellsText(row) \o <<LF>>

\* the bytes written for one header line: (h + '\r\n').encode('latin-1')
HeaderBytes(h) == h \o <<CR, LF>>

format_output(g, wid, diam, count, mode, bins) ==
    LET header == Header(g, wid, diam, count) \o BinLines(bins)
    IN  Concat([k \in 1..Len(header) |-> HeaderBytes(header[k])])
            \o Concat([i \in 1..Len(g) |-> RowBytes(g[i], mode)])


(***************************************************************************)
(* detect_pitch                                                            *)
(***************************************************************************)
\* sorted(S) of a set of numbers
RECURSIVE Sorted(_)
Sorted(S) ==
    IF S = {} THEN <<>>
    ELSE Only({ <<m>> \o Sorted(S \ {m}) : m \in {Min(S)} })

Abs(i) == IF i < 0 THEN 0 - i ELSE i

\* how often v is in the list
Count(seq, v) == Cardinality({k \in DOMAIN seq : seq[k] = v})

Positive(d) == d > 0

\* the non-zero differences of neighbours in vals
Diffs(vals) ==
    SelectSeq([i \in 1..(Len(vals) - 1) |-> Abs(vals[i + 1] - vals[i])], Positive)

\* faulty variant of most_common_diff: the smallest difference
most_common_diff_smallest(vals) ==
    IF Len(vals) < 2 THEN Absent
    ELSE Only({ IF diffs = <<>> THEN Absent
                ELSE [some |-> TRUE, n |-> Min({diffs[i] : i \in DOMAIN diffs}), d |-> 1] :
                diffs \in {Diffs(vals)} })

\* most_common_diff(vals): Counter(diffs).most_common(1)[0][0] is, of the
\* differences counted most often, the one met first
most_common_diff(vals) ==
    IF Len(vals) < 2 THEN Absent
    ELSE Only({ IF diffs = <<>> THEN Absent
                ELSE [some |-> TRUE,
                      n |-> diffs[Min({i \in DOMAIN diffs :
                                \A j \in DOMAIN diffs :
                                    Count(diffs, diffs[i]) >= Count(diffs, diffs[j])})],
                      d |-> 1] :
                diffs \in {Diffs(vals)} })

\* the values v (numerator n, denominator d) as numerators over den
Over(vs, den) == {v.n * (den \div v.d) : v \in vs}

\* most_common_diff(sorted(set(...))) of the values vs of one axis; the
\* denominators are powers of ten, the largest is a common one
AxisPitch(vs) ==
    IF vs = {} THEN Absent
    ELSE Only({ Only({ IF r.some THEN [r EXCEPT !.d = den] ELSE r :
                       r \in {most_common_diff(Sorted(Over(vs, den)))} }) :
                den \in {Max({v.d : v \in vs})} })

\* detect_pitch(coords)
detect_pitch(cs) ==
    << AxisPitch({cs[k].x : k \in DOMAIN cs}), AxisPitch({cs[k].y : k \in DOMAIN cs}) >>

(***************************************************************************)
(* Inputs of detect_pitch                                                  *)
(***************************************************************************)
MaxPitchCoords == 4

\* x and y of the placements, in database units
PitchXSamples == {0, 1473, 2946, 3946}
PitchYSamples == {0, 500}

PitchPlacements ==
    {[x |-> [n |-> a, d |-> DbUnitsPerMm], y |-> [n |-> b, d |-> DbUnitsPerMm],
      name |-> nameA] : a \in PitchXSamples, b \in PitchYSamples}

PitchLists == UNION {[1..n -> PitchPlacements] : n \in 0..MaxPitchCoords}

InitPitch ==
    /\ pc = "placed"
    /\ coords \in PitchLists
    /\ NoGds /\ NoCfg /\ NoDoc /\ NoApp /\ NoPitch
    /\ grid = <<>> /\ out = <<>> /\ new_grid = [found |-> FALSE, rows |-> <<>>]

\* px, py = detect_pitch(coords)
DetectPitch ==
    /\ pc = "placed"
    /\ pitch' = detect_pitch(coords)
    /\ pc' = "pitched"
    /\ UNCHANGED <<gdsVars, coords, cfgVars, docVars, grid, out, new_grid, appVars>>

NextPitch == DetectPitch

SpecPitch == InitPitch /\ [][NextPitch]_vars

(***************************************************************************)
(* Properties of detect_pitch                                              *)
(***************************************************************************)
\* the distinct values on the axes, in database units
XValues == {coords[k].x.n : k \in DOMAIN coords}
YValues == {coords[k].y.n : k \in DOMAIN coords}

\* the pairs of neighbours in the ascending order of V
Consecutive(V) ==
    {p \in V \X V : p[1] < p[2] /\ ~\E c \in V : p[1] < c /\ c < p[2]}

\* how many neighbours are d apart
Freq(V, d) == Cardinality({p \in Consecutive(V) : p[2] - p[1] = d})

\* r is what the claim allows for an axis with the values V
PitchOk(r, V) ==
    IF Cardinality(V) < 2 THEN ~r.some
    ELSE /\ r.some
         /\ r.d = DbUnitsPerMm
         /\ Freq(V, r.n) > 0
         /\ \A p \in Consecutive(V) : Freq(V, r.n) >= Freq(V, p[2] - p[1])

\* coords with every x (every y) replaced by a
WithX(a) == [k \in DOMAIN coords |-> [coords[k] EXCEPT !.x.n = a]]
WithY(b) == [k \in DOMAIN coords |-> [coords[k] EXCEPT !.y.n = b]]

\* C21 (pitch detection): for each axis, detect_pitch returns a difference
\* that is most frequent among the positive differences of neighbours in the
\* ascending list of the axis's distinct values, and absent when the axis has
\* fewer than two distinct values; the result for one axis is the same
\* whatever the values on the other axis are.
C21_PitchDetection ==
    pc = "pitched" =>
        /\ PitchOk(pitch[1], XValues)
        /\ PitchOk(pitch[2], YValues)
        /\ \A b \in PitchYSamples : detect_pitch(WithY(b))[1] = pitch[1]
        /\ \A a \in PitchXSamples : detect_pitch(WithX(a))[2] = pitch[2]

\* x in {0, 1473, 2946} gives 1473, and a single y gives absent
C21_Witness ==
    /\ pc = "pitched"
    /\ XValues = {0, 1473, 2946}
    /\ pitch[1] = [some |-> TRUE, n |-> 1473, d |-> DbUnitsPerMm]
    /\ Cardinality(YValues) = 1
    /\ ~pitch[2].some

(***************************************************************************)
(* Properties of parse_gds2: separators, order and multiplicity            *)
(***************************************************************************)
\* the first pair of numbers of an XY line, the two separated by a colon
\* (with optional whitespace) or by whitespace alone
FirstPair(raw) ==
    LET line == Strip(raw)
    IN  IF ~StartsWith(line, kwXY) THEN NoMatch
        ELSE LET w == WsRun(line, 3)
                 g1 == re_num(line, 3 + w)
             IN  IF w = 0 \/ ~g1.ok THEN NoMatch
                 ELSE LET sp == WsRun(line, g1.end)
                          c == g1.end + sp
                          colon == c <= Len(line) /\ line[c] = ":"
                          g2 == re_num(line, IF colon THEN c + 1 + WsRun(line, c + 1) ELSE c)
                      IN  IF (~colon /\ sp = 0) \/ ~g2.ok THEN NoMatch
                          ELSE [ok |-> TRUE, g1 |-> g1, g2 |-> g2]

FirstPairs == [raw \in LineSamples |-> FirstPair(raw)]

\* the name set by the last SNAME line before line i
NameAt(i) ==
    Matches(text[Max({k \in 1..(i - 1) : IsSnameLine(k)})]).sname.name

\* line i is in a named, open block whose name the filter accepts
Qualifies(i) ==
    Scoped(i) /\ (structs = <<>> \/ InList(NameAt(i), structs))

\* the qualifying lines with a first pair of either form, in text order
PairLines == Sorted({i \in 1..Len(text) : FirstPairs[text[i]].ok /\ Qualifies(i)})

\* the qualifying lines the pattern re_xy matches, in text order
XyLines == Sorted({i \in 1..Len(text) : IsXyLine(i) /\ Qualifies(i)})

\* C22 (XY pair separators): inside a named block every XY line whose first
\* two numbers are separated by a colon or by whitespace alone emits exactly
\* one record, built from that first pair; further pairs on the line are
\* ignored.
C22_XYSeparators ==
    pc = "parsed" =>
        Only({ /\ Len(coords) = Len(q)
               /\ \A k \in 1..Len(q) :
                    coords[k] = Record(FirstPairs[text[q[k]]], NameAt(q[k])) :
               q \in {PairLines} })

\* C23 (extraction order and multiplicity): parse_gds2 returns exactly one
\* record per qualifying XY line (in a block, name set, name accepted), in
\* the order of the lines; the record carries the first pair of its line and
\* the block's current name, and equal placements stay separate records.
C23_OrderMultiplicity ==
    pc = "parsed" =>
        Only({ /\ Len(coords) = Len(q)
               /\ \A k \in 1..Len(q) :
                    coords[k] = Record(Matches(text[q[k]]).xy, NameAt(q[k])) :
               q \in {XyLines} })

\* two XY lines of one block with the same placement give two equal
\* records, after a record of another line
C23_Witness ==
    /\ pc = "parsed"
    /\ Len(coords) = 3
    /\ coords[1] # coords[2]
    /\ coords[2] = coords[3]
    /\ Cardinality({i \in 1..Len(text) : IsSrefLine(i)}) = 1

(***************************************************************************)
(* App._update_from_raw_auto: the reparse of the raw text                  *)
(***************************************************************************)
\* least number of parts of the line that starts the data section
MinParts == 10

\* the three-character delimiter '","'
sDelim == <<QT, COMMA, QT>>

\* the positions of s where sep occurs
Occurrences(s, sep) ==
    {q \in 1..(Len(s) - Len(sep) + 1) :
        \A k \in 1..Len(sep) : s[q + k - 1] = sep[k]}

\* s.split(sep), from position p on: occurrences are taken left to right and
\* do not overlap
RECURSIVE SplitFrom(_, _, _, _)
SplitFrom(s, sep, occ, p) ==
    LET hits == {q \in occ : q >= p}
    IN  IF hits = {} THEN <<SubSeq(s, p, Len(s))>>
        ELSE LET q == Min(hits)
             IN  <<SubSeq(s, p, q - 1)>> \o SplitFrom(s, sep, occ, q + Len(sep))

Split(s, sep) == SplitFrom(s, sep, Occurrences(s, sep), 1)

\* s.strip('"')
StripQuotes(s) ==
    LET n == Len(s)
        lead == CHOOSE j \in 0..n :
                    /\ \A k \in 1..j : s[k] = QT
                    /\ j = n \/ s[j + 1] # QT
        trail == CHOOSE j \in 0..n :
                    /\ \A k \in (n - j + 1)..n : s[k] = QT
                    /\ j = n \/ s[n - j] # QT
    IN  IF lead = n THEN <<>> ELSE SubSeq(s, lead + 1, n - trail)

\* faulty variant of CleanCell: without p.strip()
CleanCellNoStrip(p) == StripQuotes(p)

\* p.strip().strip('"')
CleanCell(p) == StripQuotes(Strip(p))

\* cells = [p.strip().strip('"') for p in line.split('","')]
Cells(line) ==
    LET parts == Split(line, sDelim)
    IN  [k \in 1..Len(parts) |-> CleanCell(parts[k])]

\* all(c in ('.', '?', '*') for c in cells if c)
AllSymbols(cells) ==
    \A k \in 1..Len(cells) :
        cells[k] # <<>> => cells[k] \in {<<".">>, <<"?">>, <<"*">>}

\* the test of the first loop on one line of the text
IsStartLine(raw) ==
    LET line_s == Strip(raw)
    IN  /\ line_s # <<>>
        /\ Len(Split(line_s, sDelim)) >= MinParts
        /\ AllSymbols(Cells(line_s))

\* header_end: the 0-based index of the first start line, 0 when there is none
HeaderEnd(lines) ==
    LET starts == {i \in 1..Len(lines) : IsStartLine(lines[i])}
    IN  IF starts = {} THEN 0 ELSE Min(starts) - 1

\* the test of the second loop on one line
IsRowLine(raw) ==
    LET line == Strip(raw)
    IN  line # <<>> /\ AllSymbols(Cells(line))

\* [c for c in cells if c]
RowOf(raw) ==
    LET cells == Cells(Strip(raw))
        keep == SelectSeq(cells, LAMBDA c : c # <<>>)
    IN  [k \in 1..Len(keep) |-> keep[k][1]]

\* what the handler recognises in raw_text: no grid, or the rows of new_grid
NoGrid == [found |-> FALSE, rows |-> <<>>]

\* faulty variant of reparse: the scan ends at the first line that is no row
reparse_stops(raw_text) ==
    LET lines == Split(Strip(raw_text), <<LF>>)
        header_end == HeaderEnd(lines)
        map_lines == SubSeq(lines, header_end + 1, Len(lines))
        bad == {k \in 1..Len(map_lines) : ~IsRowLine(map_lines[k])}
        kept == IF bad = {} THEN map_lines ELSE SubSeq(map_lines, 1, Min(bad) - 1)
    IN  IF header_end = 0 THEN NoGrid
        ELSE IF kept = <<>> THEN NoGrid
        ELSE [found |-> TRUE, rows |-> [k \in 1..Len(kept) |-> RowOf(kept[k])]]

reparse(raw_text) ==
    LET lines == Split(Strip(raw_text), <<LF>>)
        header_end == HeaderEnd(lines)
        map_lines == SubSeq(lines, header_end + 1, Len(lines))
        kept == SelectSeq(map_lines, IsRowLine)
    IN  IF header_end = 0 THEN NoGrid
        ELSE IF kept = <<>> THEN NoGrid
        ELSE [found |-> TRUE, rows |-> [k \in 1..Len(kept) |-> RowOf(kept[k])]]

(***************************************************************************)
(* Inputs of the formatter                                                 *)
(***************************************************************************)
MaxRows == 2
MaxBins == 1

GridWidths == {0, 2, 9, 10}

\* rows of width w: all '.', and the symbols in rotation
RowSamples(w) ==
    { [j \in 1..w |-> "."],
      [j \in 1..w |-> <<".", "?", "*">>[(j % 3) + 1]],
      [j \in 1..w |-> <<"?", "*", ".">>[(j % 3) + 1]] }

GridSamples ==
    UNION {[1..h -> RowSamples(w)] : h \in 0..MaxRows, w \in GridWidths}

\* bin table lines: a bin definition, and a line of ten quoted '.'
BinSamples ==
    { <<QT, "1", QT, COMMA, QT, "P", QT, COMMA, "7">>,
      Join([k \in 1..10 |-> Quote(<<".">>)], <<COMMA>>) }

BinLists == UNION {[1..n -> BinSamples] : n \in 0..MaxBins}

\* wafer id, diameter and die count of the header
HeaderSamples ==
    { [wafer_id |-> <<"W", "1">>, diameter |-> 5, die_count |-> 7],
      [wafer_id |-> <<"A", COMMA, "B">>, diameter |-> 100, die_count |-> 12] }

LineModes == {"sinf", "crlf", "lf"}

InitFormat ==
    /\ pc = "built"
    /\ grid \in GridSamples
    /\ \E h \in HeaderSamples :
          /\ wafer_id = h.wafer_id
          /\ diameter = h.diameter
          /\ die_count = h.die_count
    /\ line_mode \in LineModes
    /\ bin_rows \in BinLists
    /\ die_x = 1 /\ die_y = 1 /\ show_edge = FALSE
    /\ NoGds /\ NoApp /\ NoPitch
    /\ coords = <<>> /\ out = <<>> /\ new_grid = NoGrid

\* out = format_output(grid, wafer_id, diameter, len(coords), line_mode, bin_rows)
Format ==
    /\ pc = "built"
    /\ out' = format_output(grid, wafer_id, diameter, die_count, line_mode, bin_rows)
    /\ pc' = "formatted"
    /\ UNCHANGED <<gdsVars, coords, cfgVars, docVars, grid, new_grid, pitch, appVars>>

\* the raw view shows out.decode('latin-1'); the text widget hands it back
\* with a final line feed, and the handler reparses it
Reparse ==
    /\ pc = "formatted"
    /\ new_grid' = reparse(out \o <<LF>>)
    /\ pc' = "reparsed"
    /\ UNCHANGED <<gdsVars, coords, cfgVars, docVars, grid, out, pitch, appVars>>

NextFormat == Format \/ Reparse

SpecFormat == InitFormat /\ [][NextFormat]_vars


(***************************************************************************)
(* Properties of format_output and of the reparse of its output            *)
(***************************************************************************)
\* number of fixed header lines
FixedHeaderLines == 24

\* the output cut at every line feed; the last element is what follows the
\* last line feed
OutLines == Split(out, <<LF>>)

\* number of lines written before the first grid row
HeadCount ==
    FixedHeaderLines + (IF bin_rows # <<>> THEN 1 + Len(bin_rows) ELSE 0)

EndsWith(s, t) == Len(s) >= Len(t) /\ SubSeq(s, Len(s) - Len(t) + 1, Len(s)) = t

\* s without its last k characters
DropLast(s, k) == SubSeq(s, 1, Len(s) - k)

\* the quoted symbols of a grid row joined by commas
QuotedRow(row) == Join([j \in 1..Len(row) |-> <<QT, row[j], QT>>], <<COMMA>>)

\* the extra field of a SINF grid row and the carriage return of CRLF
sSinfTail == <<COMMA, QT, CR, QT, CR>>

\* C6 (LF line termination), as claimed: in lf mode every line of the output
\* ends with a single line feed and the output holds no carriage return.
C6_LfEveryLine ==
    (pc = "formatted" /\ line_mode = "lf") =>
        LET L == OutLines
        IN  /\ L[Len(L)] = <<>>
            /\ \A k \in 1..(Len(L) - 1) : ~EndsWith(L[k], <<CR>>)
            /\ \A i \in 1..Len(out) : out[i] # CR

\* C7 (SINF line termination): in sinf mode every grid row line is its
\* comma-joined quoted symbols, then the field comma-quote-CR-quote, then
\* CRLF; every header, bin-count and bin line ends with CRLF and holds no
\* other carriage return.
C7_SinfTermination ==
    (pc = "formatted" /\ line_mode = "sinf") =>
        LET L == OutLines
            H == HeadCount
        IN  /\ Len(L) = H + Len(grid) + 1
            /\ \A k \in 1..H :
                  /\ EndsWith(L[k], <<CR>>)
                  /\ \A i \in 1..(Len(L[k]) - 1) : L[k][i] # CR
            /\ \A b \in 1..Len(bin_rows) :
                  L[FixedHeaderLines + 1 + b] = bin_rows[b] \o <<CR>>
            /\ \A i \in 1..Len(grid) : L[H + i] = QuotedRow(grid[i]) \o sSinfTail

C7_Witness ==
    /\ pc = "formatted"
    /\ line_mode = "sinf"
    /\ bin_rows # <<>>
    /\ Len(grid) > 1
    /\ Len(grid[1]) > 1

CellsOnLine(l) ==
    LET a == IF EndsWith(l, <<CR>>) THEN DropLast(l, 1) ELSE l
        b == IF line_mode = "sinf" /\ EndsWith(a, <<COMMA, QT, CR, QT>>)
             THEN DropLast(a, 4) ELSE a
    IN  IF b = <<>> THEN 0 ELSE Len(Split(b, <<COMMA>>))

IsNumber(f) == f # <<>> /\ \A i \in 1..Len(f) : IsDigit(f[i])

\* C9 (header dimensions): in the first header line the rows field is the
\* number of grid row lines written after the header and the cols field is
\* the number of cells of every one of them; for an empty grid both are 0
\* and no grid row is written.
C9_HeaderDimensions ==
    pc = "formatted" =>
        LET L == OutLines
            H == HeadCount
            f == Split(DropLast(L[1], 1), <<COMMA>>)
            rowsField == f[Len(f) - 3]
            colsField == f[Len(f) - 2]
            rowLines == SubSeq(L, H + 1, Len(L) - 1)
        IN  /\ IsNumber(rowsField) /\ IsNumber(colsField)
            /\ DigitsVal(rowsField) = Len(rowLines)
            /\ Len(rowLines) = Len(grid)
            /\ \A i \in 1..Len(rowLines) :
                  CellsOnLine(rowLines[i]) = DigitsVal(colsField)
            /\ grid = <<>> =>
                  rowsField = <<"0">> /\ colsField = <<"0">> /\ rowLines = <<>>

C9_Witness ==
    /\ pc = "formatted"
    /\ Len(grid) = 2
    /\ Len(grid[1]) = 10

SameGrid(a, b) ==
    /\ Len(a) = Len(b)
    /\ \A i \in 1..Len(a) :
          /\ Len(a[i]) = Len(b[i])
          /\ \A j \in 1..Len(a[i]) : a[i][j] = b[i][j]

\* C1 (round trip), as claimed: for every document and line mode the
\* reparse of the formatted text yields the grid that was formatted.
C1_RoundTripAny ==
    pc = "reparsed" => new_grid.found /\ SameGrid(new_grid.rows, grid)

\* no line written before the first grid row is taken for the start of the
\* data section
HeadIsNoData ==
    LET L == OutLines
    IN  \A k \in 1..HeadCount : ~IsStartLine(L[k])

\* least number of columns for a grid row to split into MinParts parts
MinCols == IF line_mode = "sinf" THEN MinParts - 1 ELSE MinParts

\* C1 (round trip), amended: when the grid has a row, at least ten columns
\* (nine in sinf mode) and no header or bin line is taken for a data row,
\* the reparse of the formatted text yields a grid with the same rows, the
\* same columns in every row and the same symbol in every cell.
C1_RoundTripWide ==
    (/\ pc = "reparsed"
     /\ grid # <<>>
     /\ NCols(grid) >= MinCols
     /\ HeadIsNoData)
        => new_grid.found /\ SameGrid(new_grid.rows, grid)

C1_Witness ==
    /\ pc = "reparsed"
    /\ line_mode = "sinf"
    /\ Len(grid) = 2
    /\ NCols(grid) = MinParts - 1
    /\ bin_rows # <<>>
    /\ HeadIsNoData
    /\ new_grid.found


(***************************************************************************)
(* The application: settings, conversion threads and their callbacks       *)
(***************************************************************************)
\* self._gds_text = None
None == [some |-> FALSE, lines |-> <<>>]

\* the test `if not self._gds_text` fails
Truthy(g) == g.some /\ g.lines # <<>>

\* float(s) for the strings of the settings: an optional sign and digits
\* give the whole number, anything else raises ValueError
float(s) ==
    LET neg == s # <<>> /\ s[1] = "-"
        ds == IF neg THEN Tail(s) ELSE s
    IN  IF ds # <<>> /\ \A k \in 1..Len(ds) : IsDigit(ds[k])
        THEN [ok |-> TRUE, v |-> IF neg THEN 0 - DigitsVal(ds) ELSE DigitsVal(ds)]
        ELSE [ok |-> FALSE, v |-> 0]

\* [t.strip() for t in s.split(sep) if t.strip()]
StrippedParts(s, sep) ==
    LET parts == Split(s, sep)
        stripped == [k \in 1..Len(parts) |-> Strip(parts[k])]
    IN  SelectSeq(stripped, LAMBDA t : t # <<>>)

sGDS2_WAFER_MAP ==
    <<"G", "D", "S", "2", "_", "W", "A", "F", "E", "R", "_", "M", "A", "P">>

\* the first statements of _convert_worker: the values read from the tk
\* variables; ok is FALSE when a float() raises ValueError
read_settings(s) ==
    LET d == float(s.diameter)
        x == float(s.die_x)
        y == float(s.die_y)
    IN  [ok |-> d.ok /\ x.ok /\ y.ok,
         wafer_id |-> IF s.wafer_id # <<>> THEN s.wafer_id ELSE sGDS2_WAFER_MAP,
         diameter |-> d.v, die_x |-> x.v, die_y |-> y.v,
         structs |-> StrippedParts(s.structs, <<COMMA>>),
         show_edge |-> s.edge,
         line_mode |-> s.line_end]

\* self._get_bin_rows()
get_bin_rows(s) == StrippedParts(s.bins \o <<LF>>, <<LF>>)

\* what one run of _convert_worker hands to the window when it reads the
\* listing g and the settings s throughout: kind "done" with grid and bytes,
\* "error" (no coordinates) or "raised" (an exception was caught)
Failed(kind) == [kind |-> kind, n |-> 0, grid |-> <<>>, out |-> <<>>]

built_grid(g, c) ==
    IF ~g.some THEN Failed("raised")
    ELSE Only({ IF cs = <<>> THEN Failed("error")
                ELSE IF c.die_x = 0 \/ c.die_y = 0 THEN Failed("raised")
                ELSE [kind |-> "done", n |-> Len(cs),
                      grid |-> Only({ gr : gr \in {build_grid(cs, c.diameter, c.die_x,
                                                              c.die_y, c.show_edge)} }),
                      out |-> <<>>] :
                cs \in {parse_gds2(g.lines, c.structs)} })

formatted(b, c, bins) ==
    [b EXCEPT !.out = format_output(b.grid, c.wafer_id, c.diameter, b.n, c.line_mode, bins)]

\* one run of _convert_worker: the tk variables read s, the listing is g,
\* and the bin editor is read (after the grid is built) when the settings are t
conversion(g, s, t) ==
    Only({ IF ~c.ok THEN Failed("raised")
           ELSE Only({ IF b.kind # "done" THEN b
                       ELSE Only({ formatted(b, c, bins) : bins \in {get_bin_rows(t)} }) :
                       b \in {built_grid(g, c)} }) :
           c \in {read_settings(s)} })

(***************************************************************************)
(* Inputs of the application                                               *)
(***************************************************************************)
MaxConversions == 2
MaxStaleTimers == 1

\* listings to browse: the single-die listing, and one without a placement
GdsFiles ==
    { << kwSREF, kwSNAME \o <<SP>> \o z5_subdef1, kwXY \o <<SP, "0", ":", "0">>, kwENDEL >>,
      << kwSREF, kwENDEL >> }

GoodSettings ==
    [wafer_id |-> <<"W", "1">>, diameter |-> <<"3">>, die_x |-> <<"1">>,
     die_y |-> <<"1">>, structs |-> z5_subdef1, edge |-> TRUE,
     line_end |-> "sinf", bins |-> <<>>]

\* what the user may type into the settings
SettingsSamples ==
    { GoodSettings,
      [GoodSettings EXCEPT !.diameter = <<"x">>],
      [GoodSettings EXCEPT !.die_x = <<"0">>],
      [GoodSettings EXCEPT !.die_x = <<"-", "1">>] }

\* symbols in rotation, k cells
Rotation(k) == [j \in 1..k |-> <<".", "?", "*">>[(j % 3) + 1]]

\* a wafer map file: a header line and two rows
MapFiles ==
    { Join(<< <<QT, "W", "1", QT, COMMA, "6">>,
              QuotedRow([j \in 1..MinParts |-> "."]),
              QuotedRow(Rotation(MinParts)) >>, <<LF>>) }

\* what self._gds_text can hold
GdsTexts == {None} \cup {[some |-> TRUE, lines |-> f] : f \in GdsFiles}

Range(f) == {f[x] : x \in DOMAIN f}

\* conversion, tabulated for the sample listings and settings
ConversionTable ==
    [q \in [gds : GdsTexts, read : SettingsSamples, bins : SettingsSamples] |->
        conversion(q.gds, q.read, q.bins)]

\* the documents a conversion can write
KnownOuts == {r.out : r \in Range(ConversionTable)}

\* what the user may type into the raw view: a word, and a title line
\* followed by a row of ten cells
EditTexts ==
    { <<"x">>,
      Join(<< <<"W">>, QuotedRow([j \in 1..MinParts |-> "."]) >>, <<LF>>) }

\* reparse of what the raw view can show, tabulated: nothing, a written
\* document, an opened map file, a typed text
ReparseTable ==
    [t \in {<<>>} \cup KnownOuts \cup MapFiles \cup EditTexts |-> reparse(t \o <<LF>>)]

(***************************************************************************)
(* _update_from_raw_auto: the handler that reparses the raw output text    *)
(***************************************************************************)
\* faulty variant of update_from_raw_auto: the held grid and bytes are
\* overwritten whether or not a grid was recognised
update_from_raw_auto_always(r) ==
    /\ new_grid' = r
    /\ grid' = r.rows
    /\ out' = raw_txt \o <<LF>>

\* raw_text = self._raw_txt.get("1.0", tk.END): the content and a final line
\* feed; r is what the two loops make of it (reparse); self._grid and
\* self._out_bytes are assigned only past both returns
update_from_raw_auto(r) ==
    /\ new_grid' = r
    /\ IF r.found
       THEN grid' = r.rows /\ out' = raw_txt \o <<LF>>
       ELSE UNCHANGED <<grid, out>>

(***************************************************************************)
(* Inputs of the handler: texts of a few lines                             *)
(***************************************************************************)
MaxTextLines == 4

TextLineSamples ==
    { QuotedRow([j \in 1..MinParts |-> "."]),
      QuotedRow(Rotation(MinParts + 1)),
      QuotedRow([j \in 1..MinParts |-> IF j = 2 THEN "X" ELSE "."]),
      QuotedRow(<<"?", "*">>),
      <<SP>>,
      <<QT, QT>> }

TextSamples ==
    {Join(ls, <<LF>>) : ls \in UNION {[1..n -> TextLineSamples] : n \in 0..MaxTextLines}}

\* a grid and bytes held from before
HeldSamples ==
    { [grid |-> <<>>, out |-> <<>>],
      [grid |-> << <<"?">> >>, out |-> <<QT, "?", QT, LF>>] }

pipeVars == <<text, structs, coords, diameter, die_x, die_y, show_edge,
              wafer_id, die_count, line_mode, bin_rows, pitch>>

InitReparse ==
    /\ pc = "edited"
    /\ raw_txt \in TextSamples
    /\ \E h \in HeldSamples : grid = h.grid /\ out = h.out
    /\ new_grid = NoGrid
    /\ NoGds /\ NoCfg /\ NoDoc /\ NoPitch
    /\ coords = <<>>
    /\ gds_text = [some |-> FALSE, lines |-> <<>>]
    /\ settings = <<>>
    /\ btn_convert = FALSE /\ btn_export = FALSE
    /\ update_timer = "none" /\ stale_timers = 0
    /\ workers = <<>> /\ after_queue = <<>>

\* the timer callback runs the handler on the text as edited
UpdateFromRawAuto ==
    /\ pc = "edited"
    /\ \E r \in {reparse(raw_txt \o <<LF>>)} : update_from_raw_auto(r)
    /\ pc' = "updated"
    /\ UNCHANGED <<pipeVars, gds_text, settings, btn_convert, btn_export, raw_txt,
                   update_timer, stale_timers, workers, after_queue>>

NextReparse == UpdateFromRawAuto

SpecReparse == InitReparse /\ [][NextReparse]_vars

(***************************************************************************)
(* Properties of the handler                                               *)
(***************************************************************************)
\* the lines the handler scans: raw_text.strip().split('\n')
RawLines == Split(Strip(raw_txt \o <<LF>>), <<LF>>)

\* the (1-based) positions of the lines that qualify as a data-section start
StartLines(L) == {i \in 1..Len(L) : IsStartLine(L[i])}

\* C18 (data-section start): the data section starts at the first non-blank
\* line that splits on '","' into at least ten parts, each empty or a symbol,
\* wherever it is in the text, the very first line included, and the first
\* row of the reparsed grid is made of that line's non-empty cells.
C18_StartAnywhere ==
    pc = "updated" =>
        LET L == RawLines
            st == StartLines(L)
        IN  st # {} =>
                /\ new_grid.found
                /\ new_grid.rows[1] = RowOf(L[Min(st)])

\* C19 (row selection): once the start is found, the rows are, in text
\* order, the non-blank lines from the start line to the end of the text
\* whose non-empty cells are all symbols, each reduced to its non-empty
\* cells; other lines give no row and do not stop the scan; rows keep their
\* own lengths.
C19_RowSelection ==
    (pc = "updated" /\ new_grid.found) =>
        LET L == RawLines
            first == Min(StartLines(L))
            sel == {i \in first..Len(L) : IsRowLine(L[i])}
        IN  /\ Len(new_grid.rows) = Cardinality(sel)
            /\ \A i \in sel :
                  new_grid.rows[Cardinality({k \in sel : k <= i})] = RowOf(L[i])
            /\ grid = new_grid.rows

\* a line with a foreign cell between two rows of different lengths
C19_Witness ==
    /\ pc = "updated"
    /\ new_grid.found
    /\ LET L == RawLines
       IN  \E i \in 1..Len(L) :
              /\ i > Min(StartLines(L))
              /\ i < Len(L)
              /\ ~IsRowLine(L[i])
              /\ Strip(L[i]) # <<>>
              /\ IsRowLine(L[Len(L)])
    /\ \E a, b \in 1..Len(new_grid.rows) :
          Len(new_grid.rows[a]) # Len(new_grid.rows[b])

\* C20 (no-grid outcome): for a text without a line that qualifies as a
\* data-section start, the handler reports no grid and leaves the held grid
\* and the held output bytes as they were.
C20_NoGridOutcome ==
    [][(/\ pc = "edited"
        /\ pc' = "updated"
        /\ StartLines(RawLines) = {})
           => (/\ ~new_grid'.found
               /\ grid' = grid
               /\ out' = out)]_vars

\* a text of lines with fewer than ten parts, a grid being held
C20_Witness ==
    /\ pc = "updated"
    /\ raw_txt # <<>>
    /\ StartLines(RawLines) = {}
    /\ \E i \in 1..Len(RawLines) : IsRowLine(RawLines[i])
    /\ grid # <<>>
    /\ out # <<>>

(***************************************************************************)
(* The application's window: conversions, from the trigger to the callback *)
(* (edits of the raw text are the inputs of the handler above)             *)
(***************************************************************************)
InitApp ==
    /\ pc = "app"
    /\ NoGds /\ NoCfg /\ NoDoc /\ Idle /\ NoPitch
    /\ gds_text = None
    /\ settings = GoodSettings
    /\ btn_convert = FALSE /\ btn_export = FALSE
    /\ raw_txt = <<>>
    /\ update_timer = "none" /\ stale_timers = 0
    /\ workers = <<>> /\ after_queue = <<>>

(***************************************************************************)
(* User actions                                                            *)
(***************************************************************************)
\* _on_text_modified: a pending timer is cancelled, a new one is started
on_text_modified == update_timer' = "pending"

\* _browse with a file chosen and read
Browse ==
    \E f \in GdsFiles :
        /\ gds_text' = [some |-> TRUE, lines |-> f]
        /\ btn_convert' = TRUE
        /\ UNCHANGED <<pc, pipeVars, grid, out, new_grid, settings, btn_export,
                       raw_txt, update_timer, stale_timers, workers, after_queue>>

\* the user changes a setting
EditSettings ==
    \E v \in SettingsSamples \ {settings} :
        /\ settings' = v
        /\ UNCHANGED <<pc, pipeVars, grid, out, new_grid, gds_text, btn_convert,
                       btn_export, raw_txt, update_timer, stale_timers, workers,
                       after_queue>>

\* what the listing g and the settings v, used throughout, make a
\* conversion hand over
Wanted(g, v) ==
    Only({ [done |-> res.kind = "done", grid |-> res.grid, out |-> res.out] :
           res \in {ConversionTable[[gds |-> g, read |-> v, bins |-> v]]} })

\* a conversion thread as started by _run_convert; want records what the
\* listing and the settings held at that moment give
NewWorker ==
    [pc |-> "started", kind |-> "none", results |-> 0,
     want |-> {Wanted(gds_text, settings)},
     read |-> {}, n |-> 0, grid |-> <<>>, out |-> <<>>]

\* _run_convert, reachable while the Convert buttons are enabled; without a
\* listing it only shows a warning
RunConvert ==
    /\ btn_convert
    /\ Truthy(gds_text)
    /\ Len(workers) < MaxConversions
    /\ btn_convert' = FALSE
    /\ btn_export' = FALSE
    /\ workers' = Append(workers, NewWorker)
    /\ UNCHANGED <<pc, pipeVars, grid, out, new_grid, gds_text, settings, raw_txt,
                   update_timer, stale_timers, after_queue>>

\* _reset: the fields are cleared, _update_timer is dropped without
\* after_cancel, and clearing a non-empty raw text starts a new timer
Reset ==
    /\ update_timer = "pending" => stale_timers < MaxStaleTimers
    /\ gds_text' = None
    /\ grid' = <<>>
    /\ out' = <<>>
    /\ stale_timers' = IF update_timer = "pending" THEN stale_timers + 1 ELSE stale_timers
    /\ raw_txt' = <<>>
    /\ update_timer' = IF raw_txt # <<>> THEN "pending" ELSE "none"
    /\ btn_convert' = FALSE
    /\ btn_export' = FALSE
    /\ UNCHANGED <<pc, pipeVars, new_grid, settings, workers, after_queue>>

\* _open_ascii_map with a file chosen and read: the bytes are shown in the
\* raw view and reparsed at once
OpenMap ==
    \E b \in MapFiles :
      \E shown \in {IF b # <<>> THEN b ELSE raw_txt} :
        \E r \in {ReparseTable[shown]} :
            /\ gds_text' = None
            /\ raw_txt' = shown
            /\ update_timer' = IF b # <<>> THEN "pending" ELSE update_timer
            /\ new_grid' = r
            /\ grid' = IF r.found THEN r.rows ELSE <<>>
            /\ out' = IF r.found THEN shown \o <<LF>> ELSE b
            /\ btn_export' = (r.found /\ r.rows # <<>>)
            /\ btn_convert' = FALSE
            /\ UNCHANGED <<pc, pipeVars, settings, stale_timers, workers, after_queue>>

\* the timer _update_timer refers to fires
TimerFires ==
    /\ update_timer = "pending"
    /\ \E r \in {ReparseTable[raw_txt]} : update_from_raw_auto(r)
    /\ update_timer' = "fired"
    /\ UNCHANGED <<pc, pipeVars, gds_text, settings, btn_convert, btn_export,
                   raw_txt, stale_timers, workers, after_queue>>

\* a timer that _reset forgot fires
StaleTimerFires ==
    /\ stale_timers > 0
    /\ \E r \in {ReparseTable[raw_txt]} : update_from_raw_auto(r)
    /\ stale_timers' = stale_timers - 1
    /\ UNCHANGED <<pc, pipeVars, gds_text, settings, btn_convert, btn_export,
                   raw_txt, update_timer, workers, after_queue>>

\* the user types into the raw view: <<Modified>> runs _on_text_modified
EditText ==
    \E t \in EditTexts \ {raw_txt} :
        /\ raw_txt' = t
        /\ on_text_modified
        /\ UNCHANGED <<pc, pipeVars, grid, out, new_grid, gds_text, settings,
                       btn_convert, btn_export, stale_timers, workers, after_queue>>

\* the window without conversions: edits, resets, opened files and timers
NextDebounce ==
    \/ EditText \/ Browse \/ Reset \/ OpenMap
    \/ TimerFires \/ StaleTimerFires

SpecDebounce == InitApp /\ [][NextDebounce]_vars

(***************************************************************************)
(* The conversion thread (_convert_worker) and its callbacks               *)
(***************************************************************************)
\* the settings worker w has read
ReadOf(w) == CHOOSE r \in w.read : TRUE

\* self.after(0, ...): the thread's last statement
Posted(w, res) ==
    [w EXCEPT !.pc = "posted", !.kind = res.kind, !.n = res.n,
              !.grid = res.grid, !.out = res.out]

\* the callback of worker w has run: r results were delivered
Ended(w, r) ==
    [w EXCEPT !.pc = "ended", !.kind = "none", !.results = r, !.want = {},
              !.read = {}, !.n = 0, !.grid = <<>>, !.out = <<>>]

\* the thread reads the tk variables (wafer id to line-ending mode); a
\* ValueError of float() is caught and _conv_err is scheduled
WorkerRead(i) ==
    /\ workers[i].pc = "started"
    /\ LET w == [workers[i] EXCEPT !.read = {settings}]
       IN  IF read_settings(settings).ok
           THEN /\ workers' = [workers EXCEPT ![i] = [w EXCEPT !.pc = "configured"]]
                /\ UNCHANGED after_queue
           ELSE /\ workers' = [workers EXCEPT ![i] = Posted(w, Failed("raised"))]
                /\ after_queue' = Append(after_queue, i)
    /\ UNCHANGED <<pc, pipeVars, grid, out, new_grid, gds_text, settings, btn_convert,
                   btn_export, raw_txt, update_timer, stale_timers>>

\* the thread reads self._gds_text, extracts the placements, builds the
\* grid, reads the bin editor, formats the document and schedules
\* _conv_done; without placements, or on an exception, it schedules _conv_err
WorkerConvert(i) ==
    /\ workers[i].pc = "configured"
    /\ \E res \in {ConversionTable[[gds |-> gds_text, read |-> ReadOf(workers[i]),
                                     bins |-> settings]]} :
           workers' = [workers EXCEPT ![i] = Posted(workers[i], res)]
    /\ after_queue' = Append(after_queue, i)
    /\ UNCHANGED <<pc, pipeVars, grid, out, new_grid, gds_text, settings, btn_convert,
                   btn_export, raw_txt, update_timer, stale_timers>>

\* _conv_done: grid and bytes are taken over together, the raw view is
\* refreshed (which starts the edit timer), Convert and Export are enabled
ConvDone ==
    /\ after_queue # <<>>
    /\ LET i == Head(after_queue)
           w == workers[i]
       IN  /\ w.kind = "done"
           /\ grid' = w.grid
           /\ out' = w.out
           /\ IF w.out # <<>>
              THEN raw_txt' = w.out /\ on_text_modified
              ELSE UNCHANGED <<raw_txt, update_timer>>
           /\ workers' = [workers EXCEPT ![i] = Ended(w, 1)]
    /\ btn_convert' = TRUE
    /\ btn_export' = TRUE
    /\ after_queue' = Tail(after_queue)
    /\ UNCHANGED <<pc, pipeVars, new_grid, gds_text, settings, stale_timers>>

\* _conv_err: the failure is reported, Convert is enabled
ConvErr ==
    /\ after_queue # <<>>
    /\ LET i == Head(after_queue)
           w == workers[i]
       IN  /\ w.kind \in {"error", "raised"}
           /\ workers' = [workers EXCEPT ![i] = Ended(w, 1)]
    /\ btn_convert' = TRUE
    /\ after_queue' = Tail(after_queue)
    /\ UNCHANGED <<pc, pipeVars, grid, out, new_grid, gds_text, settings, btn_export,
                   raw_txt, update_timer, stale_timers>>

\* the callback scheduled in an except clause is `lambda: self._conv_err(...
\* str(e) ...)`; e is unbound as soon as the thread leaves the clause, and
\* the callback runs in the main thread: when it runs after that, it raises
\* NameError before _conv_err is called
ConvErrLost ==
    /\ after_queue # <<>>
    /\ LET i == Head(after_queue)
           w == workers[i]
       IN  /\ w.kind = "raised"
           /\ workers' = [workers EXCEPT ![i] = Ended(w, 0)]
    /\ after_queue' = Tail(after_queue)
    /\ UNCHANGED <<pc, pipeVars, grid, out, new_grid, gds_text, settings, btn_convert,
                   btn_export, raw_txt, update_timer, stale_timers>>

WorkerStep ==
    \E i \in 1..Len(workers) : WorkerRead(i) \/ WorkerConvert(i)

NextApp ==
    \/ Browse \/ EditSettings \/ RunConvert \/ Reset \/ OpenMap
    \/ TimerFires \/ StaleTimerFires
    \/ WorkerStep
    \/ ConvDone \/ ConvErr \/ ConvErrLost

SpecApp == InitApp /\ [][NextApp]_vars

(***************************************************************************)
(* Properties of the application                                           *)
(***************************************************************************)
\* the conversions started and not yet answered by a callback
Outstanding == {i \in 1..Len(workers) : workers[i].pc # "ended"}

\* C14 (serialized conversions): at most one conversion is outstanding at any
\* time: no second thread is started between the start of a conversion and
\* the delivery of its result.
C14_OneOutstanding == Cardinality(Outstanding) <= 1

\* what the listing and the settings held when worker w was started give
WantOf(w) == CHOOSE q \in w.want : TRUE

\* C15 (configuration snapshot): the result a conversion hands over is the
\* one given by the listing and the settings held when it was triggered,
\* whatever was changed afterwards.
C15_Snapshot ==
    \A i \in 1..Len(workers) :
        workers[i].pc = "posted" =>
            LET w == workers[i]
                want == WantOf(w)
            IN  /\ (w.kind = "done") = want.done
                /\ w.grid = want.grid
                /\ w.out = want.out

\* C16 (single delivery): a conversion whose callback has run has delivered
\* exactly one result, a completion or an error report.
C16_SingleDelivery ==
    \A i \in 1..Len(workers) :
        workers[i].pc = "ended" => workers[i].results = 1

\* diameter and die sizes are numbers, the die sizes positive
ValidSettings(s) ==
    /\ float(s.diameter).ok
    /\ float(s.die_x).ok /\ float(s.die_x).v > 0
    /\ float(s.die_y).ok /\ float(s.die_y).v > 0

\* C17 (configuration validation): a conversion that read an unparseable
\* diameter or die size, or a die size that is zero or negative, hands over
\* no grid and no output bytes.
C17_InvalidRejected ==
    \A i \in 1..Len(workers) :
        (workers[i].pc = "posted" /\ ~ValidSettings(ReadOf(workers[i])))
            => workers[i].kind # "done"

\* nothing is held and nothing can be started or exported: the state _reset
\* leaves behind
Cleared ==
    /\ gds_text = None
    /\ grid = <<>>
    /\ out = <<>>
    /\ ~btn_convert
    /\ ~btn_export

\* C24 (reset is final until the next request): once Reset has cleared the
\* held grid and bytes and disabled Convert and Export, they stay so until
\* the user opens a listing or a map, whatever a conversion that was already
\* running does (its late result is not applied).
C24_ResetFinal ==
    [][(Cleared /\ ~Browse /\ ~OpenMap) => Cleared']_vars

\* the scheduled reparses that have neither run nor been cancelled
PendingTimers == (IF update_timer = "pending" THEN 1 ELSE 0) + stale_timers

\* C25 (debounce): at any time at most one scheduled reparse is pending:
\* every modification of the raw text cancels the reparse scheduled before
\* it, also after resets.
C25_Debounce == PendingTimers <= 1

=============================================================================
